---- MODULE Spec2Model ----
(***************************************************************************)
(* A model of HW4/hw4.ipynb: the CSV-folder loader load_data, the kWh      *)
(* normalisation loops, the combination of the per-household tables and    *)
(* the groupby/merge aggregation that yields total_power.                  *)
(*                                                                         *)
(* Strings (file names, time_point) are sequences of character codes, so   *)
(* that sorted(), str.endswith, the slice file[:-4] and pd.to_datetime     *)
(* are computed on the characters.  Power values are exact fractions, so  *)
(* floating-point rounding is left out.  Every data file has at least one  *)
(* line: pd.read_csv on an empty file is not part of the model.            *)
(***************************************************************************)
EXTENDS Integers, Sequences, FiniteSets, TLC

VARIABLES
    fs,                  \* the eco/ tree: directory -> folder
    time_point,          \* the global cutoff string
    pc,                  \* index of the next notebook statement, 0 = aborted
    error,               \* name of the uncaught exception, "" if none
    sm_data,             \* household -> table (sm_data_04 / _05 / _06)
    plugs_data,          \* household -> {appliance: table} (plugs_data_04 ...)
    comp,                \* the dict comprehension being built in cell 7
    combined_sm_data,
    combined_plugs_data,
    total_power,
    l_pc,                \* position inside load_data
    folder,              \* the folder load_data was called on
    files,               \* rest of sorted(os.listdir(folder_path))
    data,                \* the list of per-file frames
    combined_data,       \* load_data's local combined_data
    cutoff_used,         \* the value of time_point read by the filter step
    ret                  \* the value load_data returned

vars == <<fs, time_point, pc, error, sm_data, plugs_data, comp,
          combined_sm_data, combined_plugs_data, total_power,
          l_pc, folder, files, data, combined_data, cutoff_used, ret>>

loader_vars == <<l_pc, folder, files, data, combined_data, cutoff_used, ret>>

-----------------------------------------------------------------------------
(* Bounds of the model.                                                    *)

\* most files in a folder handed to a stand-alone load_data call
MaxFiles == 3

\* most directories of the eco/ tree that differ from the regular layout
MaxIrregular == 1

-----------------------------------------------------------------------------
(* Optional values: None is the empty sequence, Some(x) is <<x>>.          *)

None == <<>>

Some(x) == <<x>>

IsSome(o) == Len(o) = 1

Get(o) == o[1]

-----------------------------------------------------------------------------
(* Strings as sequences of character codes.                                *)

\* "2012-06-27.csv"
F27 == <<50, 48, 49, 50, 45, 48, 54, 45, 50, 55, 46, 99, 115, 118>>

\* "2012-06-28.csv"
F28 == <<50, 48, 49, 50, 45, 48, 54, 45, 50, 56, 46, 99, 115, 118>>

\* "2012-06-29.csv"
F29 == <<50, 48, 49, 50, 45, 48, 54, 45, 50, 57, 46, 99, 115, 118>>

\* "2012-10-01.csv"
F1001 == <<50, 48, 49, 50, 45, 49, 48, 45, 48, 49, 46, 99, 115, 118>>

\* "2012-7-02.csv": sorts after "2012-10-01.csv", dated before it
F702 == <<50, 48, 49, 50, 45, 55, 45, 48, 50, 46, 99, 115, 118>>

\* "._2012-06-27.csv": no date, sorts before every digit
FDot == <<46, 95, 50, 48, 49, 50, 45, 48, 54, 45, 50, 55, 46, 99, 115, 118>>

\* "notes.csv": no date, sorts after every digit
FNotes == <<110, 111, 116, 101, 115, 46, 99, 115, 118>>

\* ".csv": the slice file[:-4] is the empty string
FEmptyStem == <<46, 99, 115, 118>>

\* "README.txt"
FReadme == <<82, 69, 65, 68, 77, 69, 46, 116, 120, 116>>

\* '2012-06-29'
TP0629 == <<50, 48, 49, 50, 45, 48, 54, 45, 50, 57>>

\* '2012-07-01', the value cell 2 assigns
TP0701 == <<50, 48, 49, 50, 45, 48, 55, 45, 48, 49>>

\* '2013-01-23', the value the notebook's text proposes for the full data
TP2013 == <<50, 48, 49, 51, 45, 48, 49, 45, 50, 51>>

Names == {F27, F28, F29, F1001, F702, FDot, FNotes, FEmptyStem, FReadme}

TimePoints == {TP0629, TP0701, TP2013}

\* Python's str comparison: code point by code point, a prefix sorts first
RECURSIVE StrLess(_, _)
StrLess(a, b) ==
    IF b = <<>> THEN FALSE
    ELSE IF a = <<>> THEN TRUE
    ELSE IF Head(a) # Head(b) THEN Head(a) < Head(b)
    ELSE StrLess(Tail(a), Tail(b))

\* sorted(S) for a set of strings
RECURSIVE sorted(_)
sorted(S) ==
    IF S = {} THEN <<>>
    ELSE LET m == CHOOSE x \in S : \A y \in S \ {x} : StrLess(x, y)
         IN  <<m>> \o sorted(S \ {m})

\* file.endswith(".csv")
endswith_csv(file) ==
    /\ Len(file) >= 4
    /\ SubSeq(file, Len(file) - 3, Len(file)) = <<46, 99, 115, 118>>

\* file[:-4]
stem(file) ==
    IF Len(file) <= 4 THEN <<>> ELSE SubSeq(file, 1, Len(file) - 4)

-----------------------------------------------------------------------------
(* pd.to_datetime on a string: the empty string gives NaT, a string of     *)
(* the shape Y-M-D (four-digit year, one- or two-digit month and day that  *)
(* exist in the calendar) gives that day, any other string of the model    *)
(* raises.  A day is kept as the number 10000*Y + 100*M + D.               *)

IsDigits(s) == s # <<>> /\ \A i \in 1..Len(s) : s[i] \in 48..57

RECURSIVE ToInt(_)
ToInt(s) ==
    IF s = <<>> THEN 0
    ELSE 10 * ToInt(SubSeq(s, 1, Len(s) - 1)) + (s[Len(s)] - 48)

IsLeap(y) == (y % 4 = 0 /\ y % 100 # 0) \/ y % 400 = 0

DaysIn(y, m) ==
    IF m = 2 THEN (IF IsLeap(y) THEN 29 ELSE 28)
    ELSE IF m \in {4, 6, 9, 11} THEN 30 ELSE 31

NaT == [nat |-> TRUE, day |-> 0]

Day(y, m, d) == [nat |-> FALSE, day |-> 10000 * y + 100 * m + d]

ParseFailure == [ok |-> FALSE, value |-> NaT]

to_datetime(s) ==
    IF s = <<>> THEN [ok |-> TRUE, value |-> NaT]
    ELSE
    LET dashes == {i \in 1..Len(s) : s[i] = 45} IN
    IF Cardinality(dashes) # 2 THEN ParseFailure
    ELSE
    LET i1 == CHOOSE i \in dashes : \A j \in dashes : i <= j
        i2 == CHOOSE i \in dashes : \A j \in dashes : j <= i
        ys == SubSeq(s, 1, i1 - 1)
        ms == SubSeq(s, i1 + 1, i2 - 1)
        ds == SubSeq(s, i2 + 1, Len(s))
    IN  IF /\ IsDigits(ys) /\ Len(ys) = 4
           /\ IsDigits(ms) /\ Len(ms) <= 2
           /\ IsDigits(ds) /\ Len(ds) <= 2
           /\ ToInt(ms) \in 1..12
           /\ ToInt(ds) \in 1..DaysIn(ToInt(ys), ToInt(ms))
        THEN [ok |-> TRUE, value |-> Day(ToInt(ys), ToInt(ms), ToInt(ds))]
        ELSE ParseFailure

\* the comparison  date < time_point  of a datetime with a date string;
\* NaT compares False with everything
DateBeforeLe(date, tp) ==
    /\ ~date.nat
    /\ date.day <= to_datetime(tp).value.day

DateBefore(date, tp) ==
    /\ ~date.nat
    /\ date.day < to_datetime(tp).value.day

-----------------------------------------------------------------------------
(* Exact arithmetic on power values: a value is num/den in lowest terms.   *)

Abs(n) == IF n < 0 THEN -n ELSE n

RECURSIVE GCD(_, _)
GCD(a, b) == IF b = 0 THEN a ELSE GCD(b, a % b)

\* the value n as a fraction
Num(n) == [num |-> n, den |-> 1]

\* x / k for an integer k > 0
FracDivInt(x, k) ==
    LET g == GCD(Abs(x.num), k)
    IN  IF x.num = 0 THEN Num(0)
        ELSE [num |-> x.num \div g, den |-> x.den * (k \div g)]

\* x * k for an integer k > 0
FracMulInt(x, k) ==
    LET g == GCD(x.den, k)
    IN  [num |-> x.num * (k \div g), den |-> x.den \div g]

FracAdd(x, y) ==
    LET g == GCD(x.den, y.den)
        n == x.num * (y.den \div g) + y.num * (x.den \div g)
        d == (x.den \div g) * y.den
        h == GCD(Abs(n), d)
    IN  IF n = 0 THEN Num(0) ELSE [num |-> n \div h, den |-> d \div h]

\* x / y for y # 0
FracDiv(x, y) ==
    LET gn == GCD(Abs(x.num), Abs(y.num))
        gd == GCD(x.den, y.den)
        n  == (x.num \div gn) * (y.den \div gd)
        d  == (x.den \div gd) * (Abs(y.num) \div gn)
    IN  IF x.num = 0 THEN Num(0)
        ELSE [num |-> IF y.num < 0 THEN -n ELSE n, den |-> d]

RECURSIVE FracSum(_)
FracSum(s) == IF s = <<>> THEN Num(0) ELSE FracAdd(Head(s), FracSum(Tail(s)))

-----------------------------------------------------------------------------
(* load_data (cell 3).  A folder is [exists, files] with files a function  *)
(* from file name to [ncols, vals]: the number of columns of the CSV file  *)
(* and the values of its first column, one per line.  A frame is           *)
(* [ncols, rows]; a row keeps the value of column 0, the date column and,  *)
(* to tell rows apart, the file and line it was read from.                 *)

\* pd.read_csv(file_path, header=None)
read_csv(dir, file) ==
    LET f == dir.files[file]
    IN  [ncols |-> f.ncols,
         rows  |-> [i \in 1..Len(f.vals) |->
                      [v |-> Num(f.vals[i]), file |-> file, line |-> i]]]

\* df['date'] = d
set_date(df, d) ==
    [ncols |-> df.ncols + 1,
     rows  |-> [i \in 1..Len(df.rows) |-> df.rows[i] @@ [date |-> d]]]

\* mutant of loop_body: a streaming loader that skips, unread, the files
\* dated on or after the cutoff
loop_body_streaming(dir, file, acc) ==
    IF ~endswith_csv(file) THEN [ok |-> TRUE, data |-> acc]
    ELSE LET d == to_datetime(stem(file))
         IN  IF ~d.ok THEN [ok |-> FALSE, data |-> acc]
             ELSE IF ~DateBefore(d.value, time_point)
             THEN [ok |-> TRUE, data |-> acc]
             ELSE [ok   |-> TRUE,
                   data |-> Append(acc, set_date(read_csv(dir, file), d.value))]

\* one pass of the for loop over sorted(os.listdir(folder_path))
loop_body(dir, file, acc) ==
    IF ~endswith_csv(file) THEN [ok |-> TRUE, data |-> acc]
    ELSE LET d == to_datetime(stem(file))
         IN  IF ~d.ok THEN [ok |-> FALSE, data |-> acc]
             ELSE [ok   |-> TRUE,
                   data |-> Append(acc, set_date(read_csv(dir, file), d.value))]

RECURSIVE FlattenRows(_)
FlattenRows(frames) ==
    IF frames = <<>> THEN <<>>
    ELSE Head(frames).rows \o FlattenRows(Tail(frames))

RECURSIVE MaxCols(_)
MaxCols(frames) ==
    IF frames = <<>> THEN 0
    ELSE LET m == MaxCols(Tail(frames))
         IN  IF Head(frames).ncols > m THEN Head(frames).ncols ELSE m

\* pd.concat(frames, ignore_index=True) for a non-empty list of frames
concat(frames) == [ncols |-> MaxCols(frames), rows |-> FlattenRows(frames)]

\* mutant of cutoff_filter: keeps the rows dated on the cutoff day
cutoff_filter_le(df, tp) ==
    [df EXCEPT !.rows = SelectSeq(df.rows, LAMBDA r : DateBeforeLe(r.date, tp))]

\* combined_data[combined_data['date'] < time_point]
cutoff_filter(df, tp) ==
    [df EXCEPT !.rows = SelectSeq(df.rows, LAMBDA r : DateBefore(r.date, tp))]

\* an exception leaves load_data and, uncaught, ends the run
Raise(e) ==
    /\ l_pc' = "raised"
    /\ error' = e
    /\ pc' = 0

\* sorted(os.listdir(folder_path))
ListDir ==
    /\ l_pc = "listdir"
    /\ IF ~folder.exists
       THEN /\ Raise("FileNotFoundError")
            /\ UNCHANGED files
       ELSE /\ files' = sorted(DOMAIN folder.files)
            /\ l_pc' = "loop"
            /\ UNCHANGED <<error, pc>>
    /\ UNCHANGED <<fs, time_point, sm_data, plugs_data, comp, combined_sm_data,
                   combined_plugs_data, total_power, folder, data,
                   combined_data, cutoff_used, ret>>

\* the loop, one file per step
ForFile ==
    /\ l_pc = "loop"
    /\ files # <<>>
    /\ LET r == loop_body(folder, Head(files), data)
       IN  IF r.ok
           THEN /\ data' = r.data
                /\ files' = Tail(files)
                /\ UNCHANGED <<l_pc, error, pc>>
           ELSE /\ Raise("DateParseError")
                /\ UNCHANGED <<data, files>>
    /\ UNCHANGED <<fs, time_point, sm_data, plugs_data, comp, combined_sm_data,
                   combined_plugs_data, total_power, folder,
                   combined_data, cutoff_used, ret>>

\* combined_data = pd.concat(data, ignore_index=True)
Concat ==
    /\ l_pc = "loop"
    /\ files = <<>>
    /\ IF data = <<>>
       THEN /\ Raise("ValueError")
            /\ UNCHANGED combined_data
       ELSE /\ combined_data' = Some(concat(data))
            /\ l_pc' = "filter"
            /\ UNCHANGED <<error, pc>>
    /\ UNCHANGED <<fs, time_point, sm_data, plugs_data, comp, combined_sm_data,
                   combined_plugs_data, total_power, folder, files, data,
                   cutoff_used, ret>>

\* combined_data = combined_data[combined_data['date'] < time_point]
Filter ==
    /\ l_pc = "filter"
    /\ cutoff_used' = time_point
    /\ combined_data' = Some(cutoff_filter(Get(combined_data), time_point))
    /\ l_pc' = "return"
    /\ UNCHANGED <<fs, time_point, pc, error, sm_data, plugs_data, comp,
                   combined_sm_data, combined_plugs_data, total_power,
                   folder, files, data, ret>>

\* return combined_data
Return ==
    /\ l_pc = "return"
    /\ ret' = combined_data
    /\ l_pc' = "returned"
    /\ UNCHANGED <<fs, time_point, pc, error, sm_data, plugs_data, comp,
                   combined_sm_data, combined_plugs_data, total_power,
                   folder, files, data, combined_data, cutoff_used>>

LoadData == ListDir \/ ForFile \/ Concat \/ Filter \/ Return

-----------------------------------------------------------------------------
(* The eco/ tree the notebook reads: one smart-meter directory per         *)
(* household and one plug directory per household and appliance.           *)

Households == <<4, 5, 6>>

\* the appliance lists of cell 7: '01'..'08' for 04 and 05, '01'..'07' for 06
Appliances(h) == IF h = 6 THEN 1..7 ELSE 1..8

SmDir(h) == [kind |-> "sm", h |-> h, a |-> 0]

PlugDir(h, a) == [kind |-> "plugs", h |-> h, a |-> a]

Dirs ==
    {SmDir(h) : h \in {4, 5, 6}}
        \cup UNION {{PlugDir(h, a) : a \in Appliances(h)} : h \in {4, 5, 6}}

\* columns of a data file: 16 for meter data, 1 for plug data
FileCols(d) == IF d.kind = "sm" THEN 16 ELSE 1

File(n, vals) == [ncols |-> n, vals |-> vals]

Folder(f) == [exists |-> TRUE, files |-> f]

Missing == [exists |-> FALSE, files |-> <<>>]

\* the regular layout: one file per day, named by its date
RegularFolder(d) ==
    IF d.kind = "sm"
    THEN Folder((F28 :> File(16, <<3600000, 7200000>>))
             @@ (F29 :> File(16, <<3600000 * (d.h - 3)>>))
             @@ (F1001 :> File(16, <<7200000>>)))
    ELSE Folder((F28 :> File(1, <<900000 * (1 + ((d.h + d.a) % 3))>>))
             @@ (F29 :> File(1, <<1800000>>))
             @@ (F702 :> File(1, <<900000>>)))

\* what else a directory may hold
IrregularFolders(d) ==
    { Missing,
      Folder(FReadme :> File(1, <<0>>)),
      Folder((F28 :> File(FileCols(d), <<3600000>>))
          @@ (FNotes :> File(FileCols(d), <<900000>>))),
      Folder(F28 :> File(FileCols(d) + 1, <<3600000>>)),
      Folder(F702 :> File(FileCols(d), <<1800000>>)),
      Folder(F28 :> File(FileCols(d), <<0>>)),
      Folder((FEmptyStem :> File(FileCols(d), <<900000>>))
          @@ (F29 :> File(FileCols(d), <<3600000>>))) }

RegularTree == [d \in Dirs |-> RegularFolder(d)]

\* the directories that may be irregular: a first, a middle and a last one
\* of the meter loads and of the plug dicts
IrregularDirs ==
    {SmDir(4), SmDir(5), SmDir(6), PlugDir(4, 1), PlugDir(4, 8),
     PlugDir(5, 3), PlugDir(6, 7)}

RECURSIVE Trees(_)
Trees(k) ==
    IF k = 0 THEN {RegularTree}
    ELSE LET T == Trees(k - 1)
         IN  T \cup UNION {{[t EXCEPT ![d] = f] :
                                t \in T, f \in IrregularFolders(d)} :
                                   d \in IrregularDirs}

-----------------------------------------------------------------------------
(* The notebook's statements in cell order.  pc is the index of the next   *)
(* statement; pc = Len(Program) + 1 when the last cell has run.            *)

Stmt(op, cell, h, a) == [op |-> op, cell |-> cell, h |-> h, a |-> a]

RECURSIVE PlugStmts(_, _, _)
PlugStmts(op, h, a) ==
    IF a \notin Appliances(h) THEN <<>>
    ELSE <<Stmt(op, 7, h, a)>> \o PlugStmts(op, h, a + 1)

Program ==
    <<Stmt("time_point", 2, 0, 0)>>
    \o [i \in 1..3 |-> Stmt("load_sm", 5, Households[i], 0)]
    \o [i \in 1..3 |-> Stmt("norm_sm", 5, Households[i], 0)]
    \o PlugStmts("load_plug", 4, 1) \o PlugStmts("load_plug", 5, 1)
    \o PlugStmts("load_plug", 6, 1)
    \o PlugStmts("norm_plug", 4, 1) \o PlugStmts("norm_plug", 5, 1)
    \o PlugStmts("norm_plug", 6, 1)
    \o <<Stmt("combine_sm", 8, 0, 0), Stmt("combine_plugs", 8, 0, 0),
         Stmt("aggregate", 12, 0, 0)>>

Done == Len(Program) + 1

At(op) == pc \in 1..Len(Program) /\ Program[pc].op = op

\* pc is at the first statement of a cell
AtCellStart ==
    /\ pc \in 2..Len(Program)
    /\ Program[pc].cell # Program[pc - 1].cell

NotebookUnchanged ==
    UNCHANGED <<sm_data, plugs_data, comp, combined_sm_data,
                combined_plugs_data, total_power>>

\* cell 2: time_point = '2012-07-01', or the value the user configured
AssignTimePoint ==
    /\ At("time_point")
    /\ \E tp \in TimePoints : time_point' = tp
    /\ pc' = pc + 1
    /\ NotebookUnchanged
    /\ UNCHANGED <<fs, error>>
    /\ UNCHANGED loader_vars

\* a call load_data(folder_path) of cell 5 or cell 7
CallLoadData ==
    /\ pc \in 1..Len(Program)
    /\ Program[pc].op \in {"load_sm", "load_plug"}
    /\ l_pc = "idle"
    /\ folder' = IF At("load_sm") THEN fs[SmDir(Program[pc].h)]
                 ELSE fs[PlugDir(Program[pc].h, Program[pc].a)]
    /\ l_pc' = "listdir"
    /\ files' = <<>>
    /\ data' = <<>>
    /\ combined_data' = None
    /\ ret' = None
    /\ NotebookUnchanged
    /\ UNCHANGED <<fs, time_point, pc, error, cutoff_used>>

\* sm_data_04 = load_data(...): the assignment of the returned table
AssignSm ==
    /\ At("load_sm")
    /\ l_pc = "returned"
    /\ sm_data' = [sm_data EXCEPT ![Program[pc].h] = ret]
    /\ l_pc' = "idle"
    /\ pc' = pc + 1
    /\ UNCHANGED <<fs, time_point, error, plugs_data, comp, combined_sm_data,
                   combined_plugs_data, total_power, folder, files, data,
                   combined_data, cutoff_used, ret>>

\* one entry of a dict comprehension of cell 7; the dict is bound to
\* plugs_data_XX when its last entry is in
AssignPlug ==
    /\ At("load_plug")
    /\ l_pc = "returned"
    /\ LET h == Program[pc].h
           a == Program[pc].a
           d == comp @@ (a :> Get(ret))
       IN  IF a + 1 \in Appliances(h)
           THEN /\ comp' = d
                /\ UNCHANGED plugs_data
           ELSE /\ comp' = <<>>
                /\ plugs_data' = [plugs_data EXCEPT ![h] = Some(d)]
    /\ l_pc' = "idle"
    /\ pc' = pc + 1
    /\ UNCHANGED <<fs, time_point, error, sm_data, combined_sm_data,
                   combined_plugs_data, total_power, folder, files, data,
                   combined_data, cutoff_used, ret>>

-----------------------------------------------------------------------------
(* Cells 5 and 7, second half: the column names and the conversion to kWh. *)

\* names in the list assigned to sm_data.columns
SmColumns == 17

\* names in the list assigned to df.columns
PlugColumns == 2

\* mutant of to_kwh: the division is done twice
to_kwh_twice(t) ==
    [t EXCEPT !.rows = [i \in 1..Len(t.rows) |->
        [t.rows[i] EXCEPT !.v = FracDivInt(FracDivInt(@, 3600 * 1000), 3600 * 1000)]]]

\* sm_data['powerallphases'] = sm_data['powerallphases'] / (3600 * 1000)
to_kwh(t) ==
    [t EXCEPT !.rows = [i \in 1..Len(t.rows) |->
        [t.rows[i] EXCEPT !.v = FracDivInt(@, 3600 * 1000)]]]

\* mutant of Abort: the exception is swallowed and the run goes on
AbortSwallowed(e) ==
    /\ error' = e
    /\ pc' = pc + 1

\* an exception raised by a statement of a cell, uncaught: the run ends
Abort(e) ==
    /\ error' = e
    /\ pc' = 0

\* one pass of the loop over [sm_data_04, sm_data_05, sm_data_06]
NormSm ==
    /\ At("norm_sm")
    /\ LET h == Program[pc].h
           t == Get(sm_data[h])
       IN  IF t.ncols # SmColumns
           THEN /\ Abort("ValueError")
                /\ UNCHANGED sm_data
           ELSE /\ sm_data' = [sm_data EXCEPT ![h] = Some(to_kwh(t))]
                /\ pc' = pc + 1
                /\ UNCHANGED error
    /\ UNCHANGED <<fs, time_point, plugs_data, comp, combined_sm_data,
                   combined_plugs_data, total_power>>
    /\ UNCHANGED loader_vars

\* one pass of the loops over the plug dicts and their items
NormPlug ==
    /\ At("norm_plug")
    /\ LET h == Program[pc].h
           a == Program[pc].a
           t == Get(plugs_data[h])[a]
       IN  IF t.ncols # PlugColumns
           THEN /\ Abort("ValueError")
                /\ UNCHANGED plugs_data
           ELSE /\ plugs_data' = [plugs_data EXCEPT
                                    ![h] = Some([Get(@) EXCEPT ![a] = to_kwh(t)])]
                /\ pc' = pc + 1
                /\ UNCHANGED error
    /\ UNCHANGED <<fs, time_point, sm_data, comp, combined_sm_data,
                   combined_plugs_data, total_power>>
    /\ UNCHANGED loader_vars

-----------------------------------------------------------------------------
(* Cell 8: the combined tables.                                            *)

\* df[name] = value / df.assign(name=value): one more column
assign(t, col) ==
    [ncols |-> t.ncols + 1,
     rows  |-> [i \in 1..Len(t.rows) |-> t.rows[i] @@ col]]

\* sm_data_XX['household'] = ...; combined_sm_data = pd.concat([...])
CombineSm ==
    /\ At("combine_sm")
    /\ LET tagged == [h \in {4, 5, 6} |->
                         assign(Get(sm_data[h]), [household |-> h])]
       IN  /\ sm_data' = [h \in {4, 5, 6} |-> Some(tagged[h])]
           /\ combined_sm_data' =
                  Some(concat([i \in 1..3 |-> tagged[Households[i]]]))
    /\ pc' = pc + 1
    /\ UNCHANGED <<fs, time_point, error, plugs_data, comp,
                   combined_plugs_data, total_power>>
    /\ UNCHANGED loader_vars

\* pd.concat([df.assign(appliance=appliance) for appliance, df in
\*            plugs_data_XX.items()]).assign(household=...)
household_plugs(h) ==
    LET d == Get(plugs_data[h])
    IN  assign(concat([a \in 1..Len(d) |-> assign(d[a], [appliance |-> a])]),
               [household |-> h])

CombinePlugs ==
    /\ At("combine_plugs")
    /\ combined_plugs_data' =
           Some(concat([i \in 1..3 |-> household_plugs(Households[i])]))
    /\ pc' = pc + 1
    /\ UNCHANGED <<fs, time_point, error, sm_data, plugs_data, comp,
                   combined_sm_data, total_power>>
    /\ UNCHANGED loader_vars

-----------------------------------------------------------------------------
(* Cell 12: the aggregation.                                               *)

RECURSIVE SumV(_)
SumV(rows) == IF rows = <<>> THEN Num(0) ELSE FracAdd(Head(rows).v, SumV(Tail(rows)))

KeyLess(k, l) ==
    \/ k.household < l.household
    \/ k.household = l.household /\ k.appliance < l.appliance

RECURSIVE SortKeys(_)
SortKeys(S) ==
    IF S = {} THEN <<>>
    ELSE LET m == CHOOSE k \in S : \A l \in S \ {k} : KeyLess(k, l)
         IN  <<m>> \o SortKeys(S \ {m})

\* combined_plugs_data.groupby(['household', 'appliance'])
\*                    .agg({'power': 'sum'}).reset_index()
total_appliance_power(cp) ==
    LET keys == SortKeys({[household |-> cp.rows[i].household,
                           appliance |-> cp.rows[i].appliance] :
                              i \in 1..Len(cp.rows)})
    IN  [i \in 1..Len(keys) |->
            [household |-> keys[i].household,
             appliance |-> keys[i].appliance,
             power     |-> SumV(SelectSeq(cp.rows, LAMBDA r :
                               /\ r.household = keys[i].household
                               /\ r.appliance = keys[i].appliance))]]

\* combined_sm_data.groupby(['household'])
\*                 .agg({'powerallphases': 'sum'}).reset_index()
total_household_power(cs) ==
    LET keys == SortKeys({[household |-> cs.rows[i].household, appliance |-> 0] :
                              i \in 1..Len(cs.rows)})
    IN  [i \in 1..Len(keys) |->
            [household      |-> keys[i].household,
             powerallphases |-> SumV(SelectSeq(cs.rows, LAMBDA r :
                                    r.household = keys[i].household))]]

\* mutant of percentage: the factor 100 is left out
percentage_no100(power, powerallphases) ==
    IF powerallphases.num # 0
    THEN [kind |-> "num", val |-> FracDiv(power, powerallphases)]
    ELSE IF power.num = 0 THEN [kind |-> "nan", val |-> Num(0)]
    ELSE [kind |-> "inf", val |-> Num(0)]

\* power / powerallphases * 100 on floats: a zero divisor gives inf or nan
percentage(power, powerallphases) ==
    IF powerallphases.num # 0
    THEN [kind |-> "num",
          val  |-> FracMulInt(FracDiv(power, powerallphases), 100)]
    ELSE IF power.num = 0 THEN [kind |-> "nan", val |-> Num(0)]
    ELSE [kind |-> "inf", val |-> Num(0)]

\* total_appliance_power.merge(total_household_power, on='household'),
\* an inner join, then the percentage column
merge(tap, thp) ==
    LET kept == SelectSeq(tap, LAMBDA r :
                    \E j \in 1..Len(thp) : thp[j].household = r.household)
    IN  [i \in 1..Len(kept) |->
            LET m == CHOOSE j \in 1..Len(thp) :
                         thp[j].household = kept[i].household
            IN  kept[i] @@ [powerallphases |-> thp[m].powerallphases]]

with_percentage(tp) ==
    [i \in 1..Len(tp) |->
        tp[i] @@ [percentage |-> percentage(tp[i].power, tp[i].powerallphases)]]

Aggregate ==
    /\ At("aggregate")
    /\ total_power' =
           Some(with_percentage(
               merge(total_appliance_power(Get(combined_plugs_data)),
                     total_household_power(Get(combined_sm_data)))))
    /\ pc' = pc + 1
    /\ UNCHANGED <<fs, time_point, error, sm_data, plugs_data, comp,
                   combined_sm_data, combined_plugs_data>>
    /\ UNCHANGED loader_vars

\* cell 2 edited and run again between two later cells
RerunCell2 ==
    /\ AtCellStart
    /\ l_pc = "idle"
    /\ \E tp \in TimePoints \ {time_point} : time_point' = tp
    /\ NotebookUnchanged
    /\ UNCHANGED <<fs, pc, error>>
    /\ UNCHANGED loader_vars

-----------------------------------------------------------------------------
(* Specifications.                                                         *)

NoTable == [h \in {4, 5, 6} |-> None]

InitNotebookVars ==
    /\ error = ""
    /\ sm_data = NoTable
    /\ plugs_data = NoTable
    /\ comp = <<>>
    /\ combined_sm_data = None
    /\ combined_plugs_data = None
    /\ total_power = None

InitLoaderVars ==
    /\ files = <<>>
    /\ data = <<>>
    /\ combined_data = None
    /\ cutoff_used = <<>>
    /\ ret = None

\* the notebook run top to bottom on a tree with at most MaxIrregular
\* irregular directories
Init ==
    /\ fs \in Trees(MaxIrregular)
    /\ time_point = <<>>
    /\ pc = 1
    /\ InitNotebookVars
    /\ l_pc = "idle"
    /\ folder = Missing
    /\ InitLoaderVars

Next ==
    \/ AssignTimePoint
    \/ CallLoadData
    \/ LoadData
    \/ AssignSm
    \/ AssignPlug
    \/ NormSm
    \/ NormPlug
    \/ CombineSm
    \/ CombinePlugs
    \/ Aggregate

Spec == Init /\ [][Next]_vars

\* the notebook run top to bottom on the regular tree, with cell 2 edited
\* and run again between cells
InitNotebook ==
    /\ fs = RegularTree
    /\ time_point = <<>>
    /\ pc = 1
    /\ InitNotebookVars
    /\ l_pc = "idle"
    /\ folder = Missing
    /\ InitLoaderVars

NextNotebook == Next \/ RerunCell2

SpecNotebook == InitNotebook /\ [][NextNotebook]_vars

\* one call of load_data on a folder of at most MaxFiles files
FileContents == {File(1, <<3600000>>), File(1, <<900000, 1800000>>)}

Folders ==
    {Missing} \cup
    UNION {{Folder(f) : f \in [S -> FileContents]} :
              S \in {T \in SUBSET Names : Cardinality(T) <= MaxFiles}}

InitLoad ==
    /\ fs = RegularTree
    /\ time_point \in TimePoints
    /\ pc = 0
    /\ InitNotebookVars
    /\ l_pc = "listdir"
    /\ folder \in Folders
    /\ InitLoaderVars

SpecLoad == InitLoad /\ [][LoadData]_vars

-----------------------------------------------------------------------------
(* Properties of load_data, checked on single calls (SpecLoad).            *)

CsvFiles(dir) == {f \in DOMAIN dir.files : endswith_csv(f)}

\* the name of f, without its extension, is a calendar date
HasDate(f) == to_datetime(stem(f)).ok /\ ~to_datetime(stem(f)).value.nat

DateOf(f) == to_datetime(stem(f)).value

CutoffDay == to_datetime(time_point).value.day

Finished == l_pc \in {"returned", "raised"}

\* C1: every row of the table load_data returns carries the date of the file
\* it was read from, and that date is strictly before the cutoff time_point
C1_RowsBeforeCutoff ==
    l_pc = "returned" =>
        \A i \in 1..Len(Get(ret).rows) :
            LET r == Get(ret).rows[i]
            IN  /\ r.date = DateOf(r.file)
                /\ ~r.date.nat
                /\ r.date.day < CutoffDay

\* the example of C1: files of 27, 28 and 29 June 2012 with cutoff 2012-06-29
\* give rows of the first two files only
C1_Witness ==
    /\ l_pc = "returned"
    /\ time_point = TP0629
    /\ folder.exists
    /\ DOMAIN folder.files = {F27, F28, F29}
    /\ {Get(ret).rows[i].file : i \in 1..Len(Get(ret).rows)} = {F27, F28}

\* C2: load_data on a directory without any .csv file returns an empty table
C2_EmptyDirectoryGivesEmptyTable ==
    (Finished /\ folder.exists /\ CsvFiles(folder) = {}) =>
        (l_pc = "returned" /\ Get(ret).rows = <<>>)

\* C3: when some .csv file has a name that is no date, load_data fails and
\* returns no table
C3_UndatedNameFails ==
    (folder.exists /\ \E f \in CsvFiles(folder) : ~HasDate(f)) =>
        l_pc # "returned"

\* the rows the contract of load_data describes: the .csv files in
\* lexicographic order, those dated before the cutoff, each line in order
\* and tagged with the date of its file
RECURSIVE ContractRows(_, _, _)
ContractRows(dir, names, tp) ==
    IF names = <<>> THEN <<>>
    ELSE LET f == Head(names)
             n == Len(dir.files[f].vals)
         IN  (IF endswith_csv(f) /\ DateOf(f).day < to_datetime(tp).value.day
              THEN [i \in 1..n |->
                       [v |-> Num(dir.files[f].vals[i]), file |-> f,
                        line |-> i, date |-> DateOf(f)]]
              ELSE <<>>)
             \o ContractRows(dir, Tail(names), tp)

\* C4: for a directory whose .csv names are all dates, load_data returns
\* the rows of the contract, in that order
C4_ReturnsContractRows ==
    (Finished /\ folder.exists /\ \A f \in CsvFiles(folder) : HasDate(f)) =>
        /\ l_pc = "returned"
        /\ Get(ret).rows =
               ContractRows(folder, sorted(DOMAIN folder.files), time_point)

\* C4 holds of every such directory that has a .csv file at all
C4_HoldsWithSomeCsvFile ==
    (Finished /\ folder.exists /\ CsvFiles(folder) # {}
        /\ \A f \in CsvFiles(folder) : HasDate(f)) =>
        /\ l_pc = "returned"
        /\ Get(ret).rows =
               ContractRows(folder, sorted(DOMAIN folder.files), time_point)

\* C3 holds of the names on which pd.to_datetime raises
C3_HoldsWhenParsingRaises ==
    (folder.exists /\ \E f \in CsvFiles(folder) : ~to_datetime(stem(f)).ok) =>
        l_pc # "returned"

-----------------------------------------------------------------------------
(* Properties of the notebook run (Spec, SpecNotebook).                    *)

\* the value a row was read as, looked up in the tree
RawOf(dir, r) == fs[dir].files[r.file].vals[r.line]

\* raw / 3,600,000 in lowest terms
KwhOf(raw) ==
    IF raw = 0 THEN Num(0)
    ELSE LET g == GCD(raw, 3600000)
         IN  [num |-> raw \div g, den |-> 3600000 \div g]

StmtIndex(op, h, a) ==
    CHOOSE i \in 1..Len(Program) :
        Program[i].op = op /\ Program[i].h = h /\ Program[i].a = a

SmRows(h) == Get(sm_data[h]).rows

PlugRows(h, a) == Get(plugs_data[h])[a].rows

TotalRows(h) == SelectSeq(Get(total_power), LAMBDA r : r.household = h)

\* C5: total_power has a row for every (household, appliance) pair with a
\* loaded plug row, and the row holds the sums over all loaded plug rows of
\* the pair and over all loaded meter rows of the household
C5_NoLoadedRowDropped ==
    IsSome(total_power) =>
        \A h \in {4, 5, 6} : \A a \in Appliances(h) :
            PlugRows(h, a) # <<>> =>
                \E i \in 1..Len(Get(total_power)) :
                    LET r == Get(total_power)[i]
                    IN  /\ r.household = h
                        /\ r.appliance = a
                        /\ r.power = SumV(PlugRows(h, a))
                        /\ r.powerallphases = SumV(SmRows(h))

\* the sum of the totals of the plug tables of household h
RECURSIVE ApplianceTotals(_, _)
ApplianceTotals(h, a) ==
    IF a \notin Appliances(h) THEN Num(0)
    ELSE FracAdd(SumV(PlugRows(h, a)), ApplianceTotals(h, a + 1))

PercentageSum(h) ==
    FracSum([i \in 1..Len(TotalRows(h)) |-> TotalRows(h)[i].percentage.val])

\* C6: for a household with a non-zero meter total, the percentages of its
\* rows of total_power are numbers and sum to 100 times the sum of its
\* appliance totals divided by its meter total
C6_PercentagesSumToRatio ==
    IsSome(total_power) =>
        \A h \in {4, 5, 6} :
            SumV(SmRows(h)).num # 0 =>
                /\ \A i \in 1..Len(TotalRows(h)) :
                       TotalRows(h)[i].percentage.kind = "num"
                /\ PercentageSum(h) =
                       FracMulInt(FracDiv(ApplianceTotals(h, 1),
                                          SumV(SmRows(h))), 100)

\* a household's percentages sum to a number other than 100
C6_Witness ==
    /\ IsSome(total_power)
    /\ \E h \in {4, 5, 6} :
           /\ SumV(SmRows(h)).num # 0
           /\ TotalRows(h) # <<>>
           /\ PercentageSum(h) # Num(100)

\* every value of table t read from directory dir is the raw value (k = 0)
\* or the raw value divided by 3,600,000 (k = 1)
Converted(t, dir, k) ==
    \A i \in 1..Len(t.rows) :
        t.rows[i].v = IF k = 1 THEN KwhOf(RawOf(dir, t.rows[i]))
                      ELSE Num(RawOf(dir, t.rows[i]))

\* one more conversion of t divides every value again: the result differs
\* wherever the value is not zero, and times 3,600,000 it gives t back
DividesAgain(t) ==
    \A i \in 1..Len(t.rows) :
        LET v == t.rows[i].v
            w == to_kwh(t).rows[i].v
        IN  /\ v.num # 0 => w # v
            /\ FracMulInt(w, 3600000) = v

\* C7: in a run without failure a meter or plug table holds raw values
\* before its pass of the conversion loop and raw / 3,600,000 after it, the
\* combined tables hold raw / 3,600,000 throughout (3,600,000 becomes 1),
\* there are 3 meter and 23 plug tables, and the conversion is not
\* idempotent
C7_ConvertedExactlyOnce ==
    (error = "" /\ pc # 0) =>
        /\ \A h \in {4, 5, 6} :
               IsSome(sm_data[h]) =>
                   LET k == IF pc > StmtIndex("norm_sm", h, 0) THEN 1 ELSE 0
                   IN  /\ Converted(Get(sm_data[h]), SmDir(h), k)
                       /\ k = 1 => DividesAgain(Get(sm_data[h]))
        /\ \A h \in {4, 5, 6} :
               IsSome(plugs_data[h]) =>
                   /\ DOMAIN Get(plugs_data[h]) = Appliances(h)
                   /\ \A a \in Appliances(h) :
                       LET k == IF pc > StmtIndex("norm_plug", h, a)
                                THEN 1 ELSE 0
                       IN  /\ Converted(Get(plugs_data[h])[a], PlugDir(h, a), k)
                           /\ k = 1 => DividesAgain(Get(plugs_data[h])[a])
        /\ IsSome(combined_sm_data) =>
               \A i \in 1..Len(Get(combined_sm_data).rows) :
                   LET r == Get(combined_sm_data).rows[i]
                       raw == RawOf(SmDir(r.household), r)
                   IN  /\ r.v = KwhOf(raw)
                       /\ raw = 3600000 => r.v = Num(1)
        /\ IsSome(combined_plugs_data) =>
               \A i \in 1..Len(Get(combined_plugs_data).rows) :
                   LET r == Get(combined_plugs_data).rows[i]
                   IN  r.v = KwhOf(RawOf(PlugDir(r.household, r.appliance), r))
        /\ At("combine_sm") =>
               /\ Cardinality({h \in {4, 5, 6} : IsSome(sm_data[h])}) = 3
               /\ Cardinality(UNION {{<<h, a>> : a \in DOMAIN Get(plugs_data[h])} :
                                         h \in {4, 5, 6}}) = 23

\* the run is over, a raw reading of 3,600,000 has become 1 in the combined
\* meter table, and some plug value that is not zero was converted
C7_Witness ==
    /\ pc = Done
    /\ \E i \in 1..Len(Get(combined_sm_data).rows) :
           LET r == Get(combined_sm_data).rows[i]
           IN  RawOf(SmDir(r.household), r) = 3600000 /\ r.v = Num(1)
    /\ \E i \in 1..Len(Get(combined_plugs_data).rows) :
           Get(combined_plugs_data).rows[i].v.num # 0

AllBeforeCutoff(t) ==
    \A i \in 1..Len(t.rows) :
        ~t.rows[i].date.nat /\ t.rows[i].date.day < CutoffDay

\* C8: whatever was assigned to time_point and when, the combined meter
\* table just built, and the combined tables total_power was just computed
\* from, hold no row dated on or after the current time_point
C8_NoRowOnOrAfterCutoff ==
    /\ At("combine_plugs") => AllBeforeCutoff(Get(combined_sm_data))
    /\ pc = Done =>
           /\ AllBeforeCutoff(Get(combined_sm_data))
           /\ AllBeforeCutoff(Get(combined_plugs_data))

C9_WitnessMissingDirectory ==
    error = "FileNotFoundError" /\ IsSome(sm_data[4])

C9_WitnessUndatedName ==
    error = "DateParseError" /\ IsSome(sm_data[4])

\* the lines of all .csv files of dir
RECURSIVE LineCount(_, _)
LineCount(dir, S) ==
    IF S = {} THEN 0
    ELSE LET f == CHOOSE x \in S : TRUE
         IN  Len(dir.files[f].vals) + LineCount(dir, S \ {f})

====
